---- MODULE Spec2Model ----
(***************************************************************************)
(* Shotgun hill climbing with 2-opt for the travelling salesman problem:   *)
(* the sequential solver (src/src/main_tsp.cpp, src/TSPSolver-linear.cpp)  *)
(* and the OpenMP solver (src/src/main_tsp_p.cpp), run one after the other *)
(* on the same input so that their results can be compared.                *)
(*                                                                         *)
(* A tour is a sequence; position p of the C++ vector is index p + 1 here. *)
(* Distances in the chosen matrices are small integers, for which double   *)
(* arithmetic is exact.                                                    *)
(*                                                                         *)
(* std::mt19937 and std::shuffle are deterministic library code: the tour  *)
(* a shuffle yields is a function of the seed of the generator and of the  *)
(* number of shuffles made with it so far.  The model leaves that function *)
(* open: shuffleOut records the value chosen for each generator state the  *)
(* first time it is used, and every later use of an equal generator state  *)
(* returns the recorded tour.                                              *)
(***************************************************************************)
EXTENDS Integers, Sequences, FiniteSets, TLC

\* ---- bounds of the model ------------------------------------------------
MaxIter == 2
MaxRestarts == 2
MaxThreads == 2
\* restart count and team size where the 4-node matrices are solved
ClimbRestarts == 1
ClimbThreads == 1

\* std::numeric_limits<double>::max(): larger than every tour length here
DoubleMax == 1000000

\* ---- inputs -------------------------------------------------------------
Classic4 == << <<0, 10, 15, 20>>, <<10, 0, 35, 25>>, <<15, 35, 0, 30>>, <<20, 25, 30, 0>> >>
Unit1 == << <<0>> >>
Pair2 == << <<0, 3>>, <<4, 0>> >>
Asym3 == << <<0, 1, 5>>, <<4, 0, 2>>, <<3, 6, 0>> >>
Sym3 == << <<0, 1, 2>>, <<1, 0, 3>>, <<2, 3, 0>> >>
Asym4 == << <<0, 4, 4, 8>>, <<5, 0, 1, 7>>, <<9, 2, 0, 3>>, <<5, 2, 6, 0>> >>
Loop1 == << <<5>> >>
Ragged3 == << <<0, 1, 2>>, <<1, 0, 3>>, <<2, 3>> >>
Wide2 == << <<0, 1, 2>>, <<1, 0, 3>> >>
Empty0 == << >>

SmallInputs == {Unit1, Loop1, Pair2, Asym3, Sym3}
FourNodeInputs == {Classic4, Asym4}
BadInputs == {Ragged3, Wide2, Empty0}
\* the seed only names the generator streams, whose shuffles are left open
Seeds == {42}

VARIABLES
    stdinRows,        \* the matrix lines of the input
    numIterations,    \* parameter line: iteration cap
    numRestarts,      \* parameter line: restart count
    seed,             \* parameter line: seed
    numThreads,       \* OpenMP team size
    schedule,         \* restart index -> worker that executes it (omp for)
    shuffleOut,       \* generator state -> tour std::shuffle yields from it
    pc,               \* "load", "seq", "par", "region", "done", "error"
    exitCode,         \* process exit status
    adjacencyMatrix_, \* TSPSolver::adjacencyMatrix_
    \* sequential solver
    gen_,             \* TSPSolver::gen_ as <<seed, shuffles made>>
    restart,          \* loop variable of shotgunHillClimbing
    bestTour, bestLength,
    hc,               \* the hillClimb call in progress
    seqRuns,          \* history: result of each finished run, in order
    seqOut,           \* what main prints
    \* parallel solver
    wpc,              \* worker -> position in the parallel region
    localGen, localBestTour, localBestLength,
    wRestart,         \* worker -> restart index it is executing
    whc,              \* worker -> its hillClimb call in progress
    pBestTour, pBestLength,  \* shared bestTour / bestLength
    lock,             \* owner of the critical section, or -1
    parRuns,          \* history: restart index -> result of that run, times run
    atMerge,          \* history: worker -> its local best when it merged
    mergeOrder,       \* history: workers in the order they merged
    parOut            \* what main prints

inputVars == <<stdinRows, numIterations, numRestarts, seed, numThreads, schedule>>
seqVars == <<gen_, restart, bestTour, bestLength, hc, seqRuns, seqOut>>
parVars == <<wpc, localGen, localBestTour, localBestLength, wRestart, whc,
             pBestTour, pBestLength, lock, parRuns, atMerge, mergeOrder, parOut>>
vars == <<inputVars, shuffleOut, pc, exitCode, adjacencyMatrix_, seqVars, parVars>>

\* ---- pure functions -----------------------------------------------------
N == Len(adjacencyMatrix_)

\* (mutation: the rows are compared with the first row, not with the row count)
isSquareMatrixRowsEqual(m) == \A r \in 1..Len(m) : Len(m[r]) = Len(m[1])
isSquareMatrix(m) == \A r \in 1..Len(m) : Len(m[r]) = Len(m)

cost(a, b) == adjacencyMatrix_[a + 1][b + 1]

\* the loop of calculateTourLength from position i on
RECURSIVE SumEdges(_, _, _)
SumEdges(tour, i, last) ==
    IF ~(i < last) THEN 0
    ELSE cost(tour[i + 1], tour[((i + 1) % Len(tour)) + 1]) + SumEdges(tour, i + 1, last)

\* (mutation: the edge that closes the cycle is left out)
calculateTourLengthOpen(tour) == SumEdges(tour, 0, Len(tour) - 1)
calculateTourLength(tour) == SumEdges(tour, 0, Len(tour))

\* (mutation: the mirror index of the reversal is one too low)
twoOptSwapShifted(tour, i, j) ==
    [p \in 1..Len(tour) |->
        IF p - 1 >= i /\ p - 1 <= j THEN tour[i + j - (p - 1)] ELSE tour[p]]
\* (mutation: the reversal stops before position j)
twoOptSwapExclusive(tour, i, j) ==
    [p \in 1..Len(tour) |->
        IF p - 1 >= i /\ p - 1 <= j - 1 THEN tour[(i + j - 1 - (p - 1)) + 1] ELSE tour[p]]
\* std::reverse of positions i..j of a copy of the tour
twoOptSwap(tour, i, j) ==
    [p \in 1..Len(tour) |->
        IF p - 1 >= i /\ p - 1 <= j THEN tour[(i + j - (p - 1)) + 1] ELSE tour[p]]

\* std::iota(begin, end, 0)
iota(n) == [p \in 1..n |-> p - 1]

\* (mutation: the shuffle starts at begin, not at begin + 1)
ShuffledToursAll(n) ==
    {t \in [1..n -> 0..(n - 1)] : \A p \in 1..n : \E q \in 1..n : t[q] = iota(n)[p]}
\* the tours std::shuffle(begin + 1, end) can yield from iota: position 0 is
\* outside the shuffled range, the rest is rearranged
ShuffledTours(n) ==
    {t \in [1..n -> 0..(n - 1)] :
        /\ n >= 1 => t[1] = iota(n)[1]
        /\ \A p \in 1..n : \E q \in 1..n : t[q] = iota(n)[p]}

\* the acceptance test of a candidate move
\* (mutation: a move of equal length is accepted too)
AcceptsLoose(newLength, currentLength) == newLength <= currentLength
Accepts(newLength, currentLength) == newLength < currentLength

\* the tests of the two loops over candidate moves
OuterLoopTest(tour, i) == i < Len(tour) - 1
\* (mutation: the last position is never the end of a reversed segment)
InnerLoopTestShort(tour, j) == j < Len(tour) - 1
InnerLoopTest(tour, j) == j < Len(tour)

\* the test that keeps a result as the new best (global or thread-local)
\* (mutation: the comparison is inverted)
ImprovesInverted(length, best) == length > best
Improves(length, best) == length < best

\* (mutation: the break out of the loop over i is missing, so the scan goes
\* on with the next i after a move was applied)
RECURSIVE ScanNoOuterBreak(_, _, _, _, _)
ScanNoOuterBreak(tour, len, i, j, seen) ==
    IF ~OuterLoopTest(tour, i)
    THEN [improvement |-> FALSE, tour |-> tour, length |-> len, scanned |-> seen]
    ELSE IF ~InnerLoopTest(tour, j)
    THEN ScanNoOuterBreak(tour, len, i + 1, i + 2, seen)
    ELSE LET newTour == twoOptSwap(tour, i, j)
             newLength == calculateTourLength(newTour)
         IN  IF Accepts(newLength, len)
             THEN [ScanNoOuterBreak(newTour, newLength, i + 1, i + 2,
                                    Append(seen, <<i, j>>)) EXCEPT !.improvement = TRUE]
             ELSE ScanNoOuterBreak(tour, len, i, j + 1, Append(seen, <<i, j>>))

\* the two nested loops of one iteration of hillClimb, from candidate (i, j)
RECURSIVE Scan(_, _, _, _, _)
Scan(tour, len, i, j, seen) ==
    IF ~OuterLoopTest(tour, i)
    THEN [improvement |-> FALSE, tour |-> tour, length |-> len, scanned |-> seen]
    ELSE IF ~InnerLoopTest(tour, j)
    THEN Scan(tour, len, i + 1, i + 2, seen)
    ELSE LET newTour == twoOptSwap(tour, i, j)
             newLength == calculateTourLength(newTour)
         IN  IF Accepts(newLength, len)
             THEN [improvement |-> TRUE, tour |-> newTour, length |-> newLength,
                   scanned |-> Append(seen, <<i, j>>)]
             ELSE Scan(tour, len, i, j + 1, Append(seen, <<i, j>>))

\* a hillClimb call: its locals, and as history the candidates the last
\* iteration evaluated, whether it applied one, and the iterations made
NoCall == [state |-> "NONE", tour |-> << >>, length |-> 0, iter |-> 0,
           scanned |-> << >>, moved |-> FALSE, passes |-> 0]

\* hillClimb up to its loop: the initial tour and its length
hillClimbEnter(tour) ==
    [state |-> "RUNNING", tour |-> tour, length |-> calculateTourLength(tour),
     iter |-> 0, scanned |-> << >>, moved |-> FALSE, passes |-> 0]

\* (mutation: the loop over i starts at position 0)
hillClimbPassFromZero(c) ==
    LET s == Scan(c.tour, c.length, 0, 1, << >>)
    IN  [state |-> IF s.improvement THEN "RUNNING" ELSE "CONVERGED",
         tour |-> s.tour, length |-> s.length,
         iter |-> IF s.improvement THEN c.iter + 1 ELSE c.iter,
         scanned |-> s.scanned, moved |-> s.improvement, passes |-> c.passes + 1]
\* one iteration of the loop of hillClimb
hillClimbPass(c) ==
    LET s == Scan(c.tour, c.length, 1, 2, << >>)
    IN  [state |-> IF s.improvement THEN "RUNNING" ELSE "CONVERGED",
         tour |-> s.tour, length |-> s.length,
         iter |-> IF s.improvement THEN c.iter + 1 ELSE c.iter,
         scanned |-> s.scanned, moved |-> s.improvement, passes |-> c.passes + 1]

\* hillClimb as a function of its initial tour
RECURSIVE Climb(_, _)
Climb(c, cap) ==
    IF c.state = "RUNNING" /\ c.iter < cap THEN Climb(hillClimbPass(c), cap) ELSE c

hillClimb(tour, cap) == Climb(hillClimbEnter(tour), cap)

\* (mutation: the loop test is iter <= numIterations)
LoopContinuesOneMore(c) == c.state = "RUNNING" /\ c.iter <= numIterations
LoopContinues(c) == c.state = "RUNNING" /\ c.iter < numIterations
LoopExits(c) == c.state = "CONVERGED" \/ (c.state = "RUNNING" /\ ~(c.iter < numIterations))

\* std::shuffle with generator state g yields t
Shuffle(g, t) ==
    /\ t \in ShuffledTours(N)
    /\ IF g \in DOMAIN shuffleOut
       THEN t = shuffleOut[g] /\ UNCHANGED shuffleOut
       ELSE shuffleOut' = [x \in DOMAIN shuffleOut \cup {g} |->
                              IF x = g THEN t ELSE shuffleOut[x]]

NoOutput == [printed |-> FALSE, tour |-> << >>, length |-> 0]

\* ---- initial state ------------------------------------------------------
InitWith(inputs, iters, restarts, seeds, threads) ==
    /\ stdinRows \in inputs
    /\ numIterations \in iters
    /\ numRestarts \in restarts
    /\ seed \in seeds
    /\ numThreads \in threads
    /\ schedule \in [0..(numRestarts - 1) -> 0..(numThreads - 1)]
    /\ shuffleOut = << >>
    /\ pc = "load"
    /\ exitCode = 0
    /\ adjacencyMatrix_ = << >>
    /\ gen_ = <<seed, 0>>
    /\ restart = 0
    /\ bestTour = << >>
    /\ bestLength = DoubleMax
    /\ hc = NoCall
    /\ seqRuns = << >>
    /\ seqOut = NoOutput
    /\ wpc = [w \in 0..(numThreads - 1) |-> "idle"]
    /\ localGen = [w \in 0..(numThreads - 1) |-> <<0, 0>>]
    /\ localBestTour = [w \in 0..(numThreads - 1) |-> << >>]
    /\ localBestLength = [w \in 0..(numThreads - 1) |-> DoubleMax]
    /\ wRestart = [w \in 0..(numThreads - 1) |-> -1]
    /\ whc = [w \in 0..(numThreads - 1) |-> NoCall]
    /\ pBestTour = << >>
    /\ pBestLength = DoubleMax
    /\ lock = -1
    /\ parRuns = << >>
    /\ atMerge = << >>
    /\ mergeOrder = << >>
    /\ parOut = NoOutput

Init == InitWith(SmallInputs \cup BadInputs, 0..MaxIter, 0..MaxRestarts,
                 Seeds, 1..MaxThreads)

\* parameter lines with values outside the configuration's constraints too
InitConfig == InitWith(SmallInputs \cup BadInputs, (0 - 1)..MaxIter, (0 - 1)..MaxRestarts,
                       Seeds, 1..MaxThreads)

\* a solve with no 2-opt move, one with moves, and a rejected input
InitFair == InitWith({Pair2, Asym3, Ragged3}, 0..MaxIter, 0..MaxRestarts, Seeds, 1..MaxThreads)

\* the 4-node matrices, from every starting tour
InitClimb == InitWith(FourNodeInputs, 0..MaxIter, 0..ClimbRestarts, Seeds, 1..ClimbThreads)

\* ---- construction -------------------------------------------------------
loadAdjacencyMatrix ==
    /\ pc = "load"
    /\ adjacencyMatrix_' = stdinRows
    /\ IF Len(stdinRows) = 0 \/ ~isSquareMatrix(stdinRows)
       THEN pc' = "error" /\ exitCode' = 1
       ELSE pc' = "seq" /\ UNCHANGED exitCode
    /\ UNCHANGED <<inputVars, shuffleOut, seqVars, parVars>>

\* ---- sequential solver --------------------------------------------------
\* the loop test of shotgunHillClimbing
\* (mutation: the test is restart <= numRestarts)
RestartLoopTestOneMore(r) == r <= numRestarts
RestartLoopTest(r) == r < numRestarts

\* loop test of shotgunHillClimbing passes: hillClimb starts
SeqRestartBegin ==
    /\ pc = "seq" /\ hc.state = "NONE" /\ RestartLoopTest(restart)
    /\ \E t \in ShuffledTours(N) :
          /\ Shuffle(gen_, t)
          /\ hc' = hillClimbEnter(t)
    /\ gen_' = <<gen_[1], gen_[2] + 1>>
    /\ UNCHANGED <<inputVars, pc, exitCode, adjacencyMatrix_, restart, bestTour,
                   bestLength, seqRuns, seqOut, parVars>>

SeqPass ==
    /\ pc = "seq" /\ LoopContinues(hc)
    /\ hc' = hillClimbPass(hc)
    /\ UNCHANGED <<inputVars, shuffleOut, pc, exitCode, adjacencyMatrix_, gen_, restart,
                   bestTour, bestLength, seqRuns, seqOut, parVars>>

\* hillClimb returns and shotgunHillClimbing keeps the result if it is better
SeqRestartEnd ==
    /\ pc = "seq" /\ LoopExits(hc)
    /\ IF Improves(hc.length, bestLength)
       THEN bestTour' = hc.tour /\ bestLength' = hc.length
       ELSE UNCHANGED <<bestTour, bestLength>>
    /\ seqRuns' = Append(seqRuns, [tour |-> hc.tour, length |-> hc.length,
                                   state |-> hc.state, iter |-> hc.iter,
                                   passes |-> hc.passes])
    /\ restart' = restart + 1
    /\ hc' = NoCall
    /\ UNCHANGED <<inputVars, shuffleOut, pc, exitCode, adjacencyMatrix_, gen_, seqOut,
                   parVars>>

\* shotgunHillClimbing returns bestTour and main prints it with its length
SeqReturn ==
    /\ pc = "seq" /\ hc.state = "NONE" /\ ~RestartLoopTest(restart)
    /\ seqOut' = [printed |-> TRUE, tour |-> bestTour,
                  length |-> calculateTourLength(bestTour)]
    /\ pc' = "par"
    /\ UNCHANGED <<inputVars, shuffleOut, exitCode, adjacencyMatrix_, gen_, restart,
                   bestTour, bestLength, hc, seqRuns, parVars>>

\* ---- parallel solver ----------------------------------------------------
Workers == 0..(numThreads - 1)

\* restart indices of worker w that it has not started yet (omp for hands
\* each worker its indices in increasing order)
Remaining(w) == {r \in DOMAIN schedule : schedule[r] = w /\ r > wRestart[w]}

Lowest(S) == CHOOSE r \in S : \A q \in S : r <= q

\* the team starts: every thread seeds its own generator with baseSeed_ + threadId
\* (unsigned; the seeds of the model are far from the wrap-around)
\* the seed of the generator of thread w
\* (mutation: the thread ids are counted from 1)
WorkerSeedFromOne(w) == seed + w + 1
WorkerSeed(w) == seed + w

ParallelBegin ==
    /\ pc = "par"
    /\ pc' = "region"
    /\ wpc' = [w \in Workers |-> "loop"]
    /\ localGen' = [w \in Workers |-> <<WorkerSeed(w), 0>>]
    /\ localBestTour' = [w \in Workers |-> << >>]
    /\ localBestLength' = [w \in Workers |-> DoubleMax]
    /\ UNCHANGED <<inputVars, shuffleOut, exitCode, adjacencyMatrix_, seqVars, wRestart,
                   whc, pBestTour, pBestLength, lock, parRuns, atMerge, mergeOrder,
                   parOut>>

WorkerRestartBegin(w) ==
    /\ pc = "region" /\ wpc[w] = "loop" /\ Remaining(w) # {}
    /\ \E t \in ShuffledTours(N) :
          /\ Shuffle(localGen[w], t)
          /\ whc' = [whc EXCEPT ![w] = hillClimbEnter(t)]
    /\ localGen' = [localGen EXCEPT ![w] = <<@[1], @[2] + 1>>]
    /\ wRestart' = [wRestart EXCEPT ![w] = Lowest(Remaining(w))]
    /\ wpc' = [wpc EXCEPT ![w] = "climb"]
    /\ UNCHANGED <<inputVars, pc, exitCode, adjacencyMatrix_, seqVars, localBestTour,
                   localBestLength, pBestTour, pBestLength, lock, parRuns, atMerge,
                   mergeOrder, parOut>>

WorkerPass(w) ==
    /\ pc = "region" /\ wpc[w] = "climb" /\ LoopContinues(whc[w])
    /\ whc' = [whc EXCEPT ![w] = hillClimbPass(@)]
    /\ UNCHANGED <<inputVars, shuffleOut, pc, exitCode, adjacencyMatrix_, seqVars, wpc,
                   localGen, localBestTour, localBestLength, wRestart, pBestTour,
                   pBestLength, lock, parRuns, atMerge, mergeOrder, parOut>>

\* hillClimb returns and the worker keeps the result if it beats its local best
WorkerRestartEnd(w) ==
    /\ pc = "region" /\ wpc[w] = "climb" /\ LoopExits(whc[w])
    /\ IF Improves(whc[w].length, localBestLength[w])
       THEN /\ localBestTour' = [localBestTour EXCEPT ![w] = whc[w].tour]
            /\ localBestLength' = [localBestLength EXCEPT ![w] = whc[w].length]
       ELSE UNCHANGED <<localBestTour, localBestLength>>
    /\ parRuns' = [r \in DOMAIN parRuns \cup {wRestart[w]} |->
                      IF r = wRestart[w]
                      THEN [tour |-> whc[w].tour, length |-> whc[w].length,
                            state |-> whc[w].state, iter |-> whc[w].iter,
                            passes |-> whc[w].passes, by |-> w,
                            times |-> IF r \in DOMAIN parRuns
                                      THEN parRuns[r].times + 1 ELSE 1]
                      ELSE parRuns[r]]
    /\ whc' = [whc EXCEPT ![w] = NoCall]
    /\ wpc' = [wpc EXCEPT ![w] = "loop"]
    /\ UNCHANGED <<inputVars, shuffleOut, pc, exitCode, adjacencyMatrix_, seqVars, localGen,
                   wRestart, pBestTour, pBestLength, lock, atMerge, mergeOrder, parOut>>

\* the worker has no index left and waits at the barrier that ends omp for
WorkerLoopEnd(w) ==
    /\ pc = "region" /\ wpc[w] = "loop" /\ Remaining(w) = {}
    /\ wpc' = [wpc EXCEPT ![w] = "barrier"]
    /\ UNCHANGED <<inputVars, shuffleOut, pc, exitCode, adjacencyMatrix_, seqVars, localGen,
                   localBestTour, localBestLength, wRestart, whc, pBestTour, pBestLength,
                   lock, parRuns, atMerge, mergeOrder, parOut>>

BarrierPassed == \A v \in Workers : wpc[v] \notin {"loop", "climb"}

\* omp critical admits one thread at a time
\* (mutation: the block is not a critical section)
CriticalUnguarded == TRUE
CriticalIsFree == lock = -1

CriticalEnter(w) ==
    /\ pc = "region" /\ wpc[w] = "barrier" /\ BarrierPassed /\ CriticalIsFree
    /\ lock' = w
    /\ wpc' = [wpc EXCEPT ![w] = "critical"]
    /\ atMerge' = [v \in DOMAIN atMerge \cup {w} |->
                      IF v = w THEN [tour |-> localBestTour[w], length |-> localBestLength[w]]
                      ELSE atMerge[v]]
    /\ mergeOrder' = Append(mergeOrder, w)
    /\ UNCHANGED <<inputVars, shuffleOut, pc, exitCode, adjacencyMatrix_, seqVars, localGen,
                   localBestTour, localBestLength, wRestart, whc, pBestTour, pBestLength,
                   parRuns, parOut>>

\* the comparison and, if it passes, the move of the local tour into bestTour
\* (the moved-from vector is left empty; it is not read again)
\* the test of the critical section
\* (mutation: the worker stores its local best without comparing)
MergeTestAlways(w) == TRUE
MergeTest(w) == Improves(localBestLength[w], pBestLength)

CriticalCompare(w) ==
    /\ pc = "region" /\ wpc[w] = "critical"
    /\ IF MergeTest(w)
       THEN /\ pBestTour' = localBestTour[w]
            /\ localBestTour' = [localBestTour EXCEPT ![w] = << >>]
            /\ wpc' = [wpc EXCEPT ![w] = "assign"]
       ELSE /\ wpc' = [wpc EXCEPT ![w] = "leave"]
            /\ UNCHANGED <<pBestTour, localBestTour>>
    /\ UNCHANGED <<inputVars, shuffleOut, pc, exitCode, adjacencyMatrix_, seqVars, localGen,
                   localBestLength, wRestart, whc, pBestLength, lock, parRuns, atMerge,
                   mergeOrder, parOut>>

CriticalAssign(w) ==
    /\ pc = "region" /\ wpc[w] = "assign"
    /\ pBestLength' = localBestLength[w]
    /\ wpc' = [wpc EXCEPT ![w] = "leave"]
    /\ UNCHANGED <<inputVars, shuffleOut, pc, exitCode, adjacencyMatrix_, seqVars, localGen,
                   localBestTour, localBestLength, wRestart, whc, pBestTour, lock, parRuns,
                   atMerge, mergeOrder, parOut>>

CriticalExit(w) ==
    /\ pc = "region" /\ wpc[w] = "leave"
    /\ lock' = -1
    /\ wpc' = [wpc EXCEPT ![w] = "end"]
    /\ UNCHANGED <<inputVars, shuffleOut, pc, exitCode, adjacencyMatrix_, seqVars, localGen,
                   localBestTour, localBestLength, wRestart, whc, pBestTour, pBestLength,
                   parRuns, atMerge, mergeOrder, parOut>>

\* the region ends, shotgunHillClimbingParallel returns and main prints
ParReturn ==
    /\ pc = "region" /\ \A w \in Workers : wpc[w] = "end"
    /\ parOut' = [printed |-> TRUE, tour |-> pBestTour,
                  length |-> calculateTourLength(pBestTour)]
    /\ pc' = "done"
    /\ UNCHANGED <<inputVars, shuffleOut, exitCode, adjacencyMatrix_, seqVars, wpc, localGen,
                   localBestTour, localBestLength, wRestart, whc, pBestTour, pBestLength,
                   lock, parRuns, atMerge, mergeOrder>>

Worker(w) ==
    \/ WorkerRestartBegin(w) \/ WorkerPass(w) \/ WorkerRestartEnd(w) \/ WorkerLoopEnd(w)
    \/ CriticalEnter(w) \/ CriticalCompare(w) \/ CriticalAssign(w) \/ CriticalExit(w)

Next ==
    \/ loadAdjacencyMatrix
    \/ SeqRestartBegin \/ SeqPass \/ SeqRestartEnd \/ SeqReturn
    \/ ParallelBegin
    \/ \E w \in Workers : Worker(w)
    \/ ParReturn

Spec == Init /\ [][Next]_vars

SpecClimb == InitClimb /\ [][Next]_vars

SpecConfig == InitConfig /\ [][Next]_vars

\* every thread that can take a step is scheduled in the end: the program
\* does not stop while one of its steps is possible
SpecFair == InitFair /\ [][Next]_vars /\ WF_vars(Next)

\* ---- properties ---------------------------------------------------------
IsPermutation(t) ==
    /\ Len(t) = N
    /\ \A v \in 0..(N - 1) : Cardinality({p \in 1..Len(t) : t[p] = v}) = 1

\* the 2-opt moves of a tour of n nodes: 1 <= i < j <= n - 1
Moves(n) == {m \in (1..(n - 1)) \X (1..(n - 1)) : m[1] < m[2]}

\* the hillClimb calls in progress
Calls == {hc} \cup {whc[w] : w \in Workers}
ActiveCalls == {c \in Calls : c.state # "NONE"}
\* the results of the runs that have returned
SeqResults == {seqRuns[k] : k \in 1..Len(seqRuns)}
ParResults == {parRuns[r] : r \in DOMAIN parRuns}

\* C1: every tour at every stage (a call's current tour, every candidate
\* twoOptSwap returns for it, every run's result, the thread-local and the
\* global best once a run has been kept, and the tour returned for
\* numRestarts >= 1) has length N and holds each node 0..N-1 exactly once.
C1_PermutationInvariant ==
    /\ \A c \in ActiveCalls :
          /\ IsPermutation(c.tour)
          /\ \A m \in Moves(N) : IsPermutation(twoOptSwap(c.tour, m[1], m[2]))
    /\ \A r \in SeqResults \cup ParResults : IsPermutation(r.tour)
    /\ restart >= 1 => IsPermutation(bestTour)
    /\ \A w \in Workers :
          /\ localBestLength[w] < DoubleMax /\ wpc[w] \in {"loop", "climb", "barrier", "critical"}
                => IsPermutation(localBestTour[w])
          /\ w \in DOMAIN atMerge /\ atMerge[w].length < DoubleMax
                => IsPermutation(atMerge[w].tour)
    /\ pBestLength < DoubleMax => IsPermutation(pBestTour)
    /\ seqOut.printed /\ numRestarts >= 1 => IsPermutation(seqOut.tour)
    /\ parOut.printed /\ numRestarts >= 1 => IsPermutation(parOut.tour)

\* a 4-node solve has printed a tour that a run reached by two accepted moves
C1_Witness ==
    /\ N = 4 /\ parOut.printed /\ numRestarts >= 1
    /\ \E r \in SeqResults : r.iter >= 2 /\ r.tour = seqOut.tour

\* C2: a run that stopped because a whole pass found no improvement holds a
\* tour that no segment reversal (i, j), 1 <= i < j <= N-1, makes shorter.
LocalOptimum(tour) ==
    \A m \in Moves(Len(tour)) :
        ~(calculateTourLength(twoOptSwap(tour, m[1], m[2])) < calculateTourLength(tour))

C2_ConvergedIsLocalOptimum ==
    /\ \A c \in ActiveCalls : c.state = "CONVERGED" => LocalOptimum(c.tour)
    /\ \A r \in SeqResults \cup ParResults : r.state = "CONVERGED" => LocalOptimum(r.tour)

\* a 4-node run converged after an accepted move, and a run converged on a
\* tour that is not the shortest one
C2_Witness ==
    /\ N = 4 /\ pc = "done"
    /\ \E r \in SeqResults : r.state = "CONVERGED" /\ r.iter >= 1
    /\ \E r \in ParResults :
          /\ r.state = "CONVERGED"
          /\ \E t \in ShuffledTours(N) : calculateTourLength(t) < r.length

\* C3: within one run currentLength never increases from one iteration to
\* the next nor to the return, and an iteration that changes the tour makes
\* it strictly smaller.
SameRunStep(c, d) == c.state = "RUNNING" /\ d.state # "NONE"

C3_Step ==
    /\ SameRunStep(hc, hc') =>
          /\ hc'.length <= hc.length
          /\ hc'.tour # hc.tour => hc'.length < hc.length
    /\ \A w \in Workers : SameRunStep(whc[w], whc'[w]) =>
          /\ whc'[w].length <= whc[w].length
          /\ whc'[w].tour # whc[w].tour => whc'[w].length < whc[w].length
    /\ hc.state # "NONE" /\ Len(seqRuns') > Len(seqRuns) =>
          seqRuns'[Len(seqRuns')].length <= hc.length
    /\ \A w \in Workers : whc[w].state # "NONE" /\ whc'[w].state = "NONE" =>
          parRuns'[wRestart[w]].length <= whc[w].length

C3_MonotonicImprovement == [][C3_Step]_vars

\* a run has applied two moves in a row, each one shortening the tour
C3_Witness == hc.state = "RUNNING" /\ hc.iter >= 2 /\ hc.moved

\* ---- a solve as a function of the distribution of its restarts ----------
Min(S) == CHOOSE x \in S : \A y \in S : x <= y

\* the generator state restart r starts from when the restarts are handed
\* out as sched says: the generator of its worker, after one shuffle for
\* each earlier restart of that worker
GenUnder(sched, r) ==
    <<seed + sched[r], Cardinality({q \in DOMAIN sched : q < r /\ sched[q] = sched[r]})>>

Known(g) == g \in DOMAIN shuffleOut
KnownUnder(sched) == \A r \in DOMAIN sched : Known(GenUnder(sched, r))

\* the result of the run that starts from generator state g
RunFrom(g) == hillClimb(shuffleOut[g], numIterations)

\* the smallest result among the runs of a solve distributed as sched says
BestLengthUnder(sched) == Min({RunFrom(GenUnder(sched, r)).length : r \in DOMAIN sched})

Distributions(threads) == [0..(numRestarts - 1) -> 0..(threads - 1)]

\* the parallel solve printed the length that its own distribution determines
PrintedIsBestUnderSchedule ==
    pc = "done" /\ numRestarts >= 1 => parOut.length = BestLengthUnder(schedule)

\* C4: for numRestarts >= 1 the sequential solver (one generator for all
\* restarts) and the parallel solver (one generator per thread, seeded
\* seed + threadId) print the same length.
C4_SequentialAndParallelAgree ==
    pc = "done" /\ numRestarts >= 1 => seqOut.length = parOut.length

\* C5: once every worker has left the critical section, the shared bestLength
\* is the minimum of the workers' localBestLength and bestTour is the local
\* best tour of a worker with that minimum.
AllMerged == pc \in {"region", "done"} /\ \A w \in Workers : wpc[w] = "end"

C5_NoLostUpdate ==
    AllMerged =>
        /\ pBestLength = Min({localBestLength[w] : w \in Workers})
        /\ \E w \in Workers :
              localBestLength[w] = pBestLength /\ atMerge[w].tour = pBestTour

\* two workers kept different local bests and the one that merged second had
\* the shorter one, so the shared best was overwritten
C5_Witness ==
    /\ AllMerged /\ Len(mergeOrder) = 2
    /\ localBestLength[mergeOrder[1]] < DoubleMax
    /\ localBestLength[mergeOrder[2]] < localBestLength[mergeOrder[1]]

\* C6: when several restarts reach the minimal length, the tour returned is
\* that of the restart with the lowest index, sequentially and in parallel.
FirstBestSeq ==
    Min({k \in 1..Len(seqRuns) : \A q \in 1..Len(seqRuns) : seqRuns[k].length <= seqRuns[q].length})
FirstBestPar ==
    Min({r \in DOMAIN parRuns : \A q \in DOMAIN parRuns : parRuns[r].length <= parRuns[q].length})

C6_TieBreakByRunOrder ==
    pc = "done" /\ numRestarts >= 1 =>
        /\ seqOut.tour = seqRuns[FirstBestSeq].tour
        /\ parOut.tour = parRuns[FirstBestPar].tour

\* C7: the length the parallel solver prints is the same for every team size
\* and every distribution of the restarts over the team (compared here for
\* the distributions whose shuffles this behaviour has fixed).
C7_IndependentOfTeam ==
    pc = "done" /\ numRestarts >= 1 =>
        \A threads \in 1..MaxThreads : \A sched \in Distributions(threads) :
            KnownUnder(sched) => BestLengthUnder(sched) = parOut.length

C9_ClassicOptimum ==
    stdinRows = Classic4 =>
        /\ pc = "seq" /\ restart = 0 /\ hc.state = "NONE" =>
              \A t \in ShuffledTours(N) : \A cap \in {1, 100} :
                  /\ hillClimb(t, cap).length = 80
                  /\ calculateTourLength(hillClimb(t, cap).tour) = 80
        /\ numIterations >= 1 =>
              /\ \A r \in SeqResults \cup ParResults : r.length = 80
              /\ seqOut.printed /\ numRestarts >= 1 => seqOut.length = 80
              /\ parOut.printed /\ numRestarts >= 1 => parOut.length = 80

\* both solvers printed 80 after a run that started on a tour of length 95
C9_Witness ==
    /\ stdinRows = Classic4 /\ pc = "done" /\ numIterations >= 1
    /\ \E r \in SeqResults : r.iter >= 1
    /\ \E r \in ParResults : r.iter >= 1
    /\ seqOut.length = 80 /\ parOut.length = 80

\* C10 as stated: on the matrix [[0]] both solvers print the tour [0] and
\* length 0 whatever numRestarts and numIterations are.
SingleNodeOutput(out) == out.printed => out.tour = <<0>> /\ out.length = 0

C10_SingleNodeAnyRestartCount ==
    stdinRows = Unit1 => SingleNodeOutput(seqOut) /\ SingleNodeOutput(parOut)

\* C10, amended: on the matrix [[0]] both solvers print the tour [0] and
\* length 0 for every iteration cap and every numRestarts >= 1.
C10_SingleNode ==
    stdinRows = Unit1 /\ numRestarts >= 1 =>
        SingleNodeOutput(seqOut) /\ SingleNodeOutput(parOut)

\* both solvers have printed, with cap 0 and with a worker left without restart
C10_Witness ==
    /\ stdinRows = Unit1 /\ pc = "done" /\ numIterations = 0
    /\ numRestarts = 1 /\ numThreads = 2
    /\ seqOut.tour = <<0>> /\ parOut.tour = <<0>>

\* ---- input and configuration errors -------------------------------------
\* the input has no row, or a row whose length is not the number of rows
EmptyOrNotSquare(rows) ==
    Len(rows) = 0 \/ \E r \in 1..Len(rows) : Len(rows[r]) # Len(rows)

\* no tour was generated, no hillClimb call was made, no result was printed
NothingSolved ==
    /\ shuffleOut = << >> /\ gen_[2] = 0
    /\ \A c \in Calls : c.state = "NONE"
    /\ seqRuns = << >> /\ DOMAIN parRuns = {}
    /\ bestTour = << >> /\ pBestTour = << >>
    /\ ~seqOut.printed /\ ~parOut.printed

\* C11: an empty or a non-square matrix is rejected before any hillClimb
\* run: the program never leaves the loading of the matrix except to the
\* error exit with a non-zero exit code, no tour is generated and no result
\* is printed.
C11_BadMatrixRejected ==
    EmptyOrNotSquare(stdinRows) =>
        /\ pc \in {"load", "error"}
        /\ pc = "error" => exitCode # 0
        /\ NothingSolved

\* the matrix with rows of 3, 3 and 2 entries has been rejected
C11_Witness ==
    /\ stdinRows = Ragged3 /\ pc = "error" /\ exitCode = 1
    /\ Len(stdinRows[1]) = 3 /\ Len(stdinRows[3]) = 2

\* C12: a parameter line with numRestarts < 1 or numIterations < 0 is
\* reported as a configuration error: the program ends with a non-zero exit
\* code before solving and prints no tour.
C12_BadConfigRejected ==
    numRestarts < 1 \/ numIterations < 0 =>
        /\ pc \in {"load", "error"}
        /\ pc = "error" => exitCode # 0
        /\ NothingSolved

\* ---- first improvement ---------------------------------------------------
\* the place of the pair m in the order i = 1..N-2, j = i+1..N-1
Rank(m) ==
    Cardinality({q \in Moves(N) : q[1] < m[1] \/ (q[1] = m[1] /\ q[2] < m[2])}) + 1

\* the step from call record c to d is an iteration that applied a move
PassApplied(c, d) ==
    c.state = "RUNNING" /\ d.state = "RUNNING" /\ d.passes = c.passes + 1 /\ d.moved

\* the iteration evaluated the pairs in order up to the applied one, which is
\* the first whose reversed tour is strictly shorter than the tour before
FirstImproving(c, d) ==
    LET k == Len(d.scanned)
        before == calculateTourLength(c.tour)
        Cand(q) == twoOptSwap(c.tour, d.scanned[q][1], d.scanned[q][2])
    IN  /\ k >= 1
        /\ \A q \in 1..k : d.scanned[q] \in Moves(N) /\ Rank(d.scanned[q]) = q
        /\ d.tour = Cand(k)
        /\ calculateTourLength(Cand(k)) < before
        /\ \A q \in 1..(k - 1) : ~(calculateTourLength(Cand(q)) < before)

C13_Step ==
    /\ PassApplied(hc, hc') => FirstImproving(hc, hc')
    /\ \A w \in Workers : PassApplied(whc[w], whc'[w]) => FirstImproving(whc[w], whc'[w])

\* C13: in every iteration that applies a move, the applied pair (i, j) is
\* the first in the order i = 1..N-2, j = i+1..N-1 whose reversed tour is
\* strictly shorter than the current tour: the pairs before it were evaluated
\* and none was improving, and no pair after it is evaluated in that iteration.
C13_FirstImprovement == [][C13_Step]_vars

\* on 4 nodes an iteration applied the second pair (1, 3): the first pair
\* (1, 2) was not improving and the third pair (2, 3) was not evaluated
C13_Witness ==
    /\ N = 4 /\ hc.state = "RUNNING" /\ hc.moved
    /\ hc.scanned = << <<1, 2>>, <<1, 3>> >>

\* ---- four-edge delta -----------------------------------------------------
\* the length the four-edge formula gives for the reversal of positions i..j
\* of a tour of length len
DeltaLength(tour, len, i, j) ==
    LET n == Len(tour)
        a == tour[(i - 1) + 1]
        b == tour[i + 1]
        c == tour[j + 1]
        d == tour[((j + 1) % n) + 1]
    IN  len - cost(a, b) - cost(c, d) + cost(a, c) + cost(b, d)

\* the four-edge length of every 2-opt candidate of the tour t is the
\* length calculateTourLength gives for it
DeltaAgrees(t) ==
    \A m \in Moves(Len(t)) :
        calculateTourLength(twoOptSwap(t, m[1], m[2]))
            = DeltaLength(t, calculateTourLength(t), m[1], m[2])

\* hillClimb with the candidates' lengths taken from the four-edge formula
RECURSIVE ScanDelta(_, _, _, _)
ScanDelta(tour, len, i, j) ==
    IF ~(i < Len(tour) - 1)
    THEN [improvement |-> FALSE, tour |-> tour, length |-> len]
    ELSE IF ~(j < Len(tour))
    THEN ScanDelta(tour, len, i + 1, i + 2)
    ELSE LET newLength == DeltaLength(tour, len, i, j)
         IN  IF newLength < len
             THEN [improvement |-> TRUE, tour |-> twoOptSwap(tour, i, j),
                   length |-> newLength]
             ELSE ScanDelta(tour, len, i, j + 1)

RECURSIVE ClimbDelta(_, _, _, _)
ClimbDelta(tour, len, iter, cap) ==
    IF ~(iter < cap)
    THEN [tour |-> tour, length |-> len]
    ELSE LET s == ScanDelta(tour, len, 1, 2)
         IN  IF s.improvement
             THEN ClimbDelta(s.tour, s.length, iter + 1, cap)
             ELSE [tour |-> tour, length |-> len]

hillClimbDelta(tour, cap) == ClimbDelta(tour, calculateTourLength(tour), 0, cap)

SameAsDelta(t, cap) ==
    LET full == hillClimb(t, cap)
        delta == hillClimbDelta(t, cap)
    IN  full.tour = delta.tour /\ full.length = delta.length

\* the matrix the solver holds is symmetric
Symmetric == \A a, b \in 0..(N - 1) : cost(a, b) = cost(b, a)

\* the solver holds the matrix and the first restart has not begun
Loaded == pc = "seq" /\ restart = 0 /\ hc.state = "NONE"

DeltaEquivalence ==
    /\ \A c \in ActiveCalls : DeltaAgrees(c.tour)
    /\ Loaded =>
          \A t \in ShuffledTours(N) :
              /\ DeltaAgrees(t)
              /\ \A cap \in 0..MaxIter : SameAsDelta(t, cap)

\* C14: for every matrix, symmetric or not, every tour and every
\* 1 <= i < j <= N-1 the recomputed length of twoOptSwap(tour, i, j) is the
\* tour's length minus cost(t[i-1], t[i]) and cost(t[j], t[(j+1) mod N]) plus
\* cost(t[i-1], t[j]) and cost(t[i], t[(j+1) mod N]), and a hill-climb that
\* takes the candidates' lengths from this delta accepts the same moves and
\* returns the same tour.
C14_DeltaAnyMatrix == DeltaEquivalence

\* C14, amended: the same for every symmetric matrix.
C14_DeltaSymmetric == Symmetric => DeltaEquivalence

\* on the symmetric 4-node matrix an iteration applied the move (2, 3),
\* whose second removed edge is the one that closes the tour
C14_Witness ==
    /\ N = 4 /\ Symmetric /\ hc.state = "RUNNING" /\ hc.moved
    /\ hc.scanned[Len(hc.scanned)] = <<2, 3>>

\* ---- termination ---------------------------------------------------------
\* a call or a returned run made at most numIterations iterations, and
\* applied at most one move in each
WithinCap(c) == c.passes <= numIterations /\ c.iter <= c.passes

C15_Bounded ==
    /\ \A c \in Calls \cup SeqResults \cup ParResults : WithinCap(c)
    /\ Len(seqRuns) <= numRestarts
    /\ seqOut.printed => Len(seqRuns) = numRestarts
    /\ \A r \in DOMAIN parRuns :
          /\ r \in 0..(numRestarts - 1)
          /\ parRuns[r].times = 1
          /\ parRuns[r].by \in Workers
    /\ \A w, v \in Workers :
          w # v /\ whc[w].state # "NONE" /\ whc[v].state # "NONE"
              => wRestart[w] # wRestart[v]
    /\ parOut.printed => DOMAIN parRuns = 0..(numRestarts - 1)

\* a call that has converged makes no further iteration: its next step is
\* its return
ConvergedIsTerminal(c, d) ==
    c.state = "CONVERGED" => d = c \/ d.state = "NONE"

C15_Step ==
    /\ ConvergedIsTerminal(hc, hc')
    /\ \A w \in Workers : ConvergedIsTerminal(whc[w], whc'[w])

\* the program has ended
Finished == pc \in {"done", "error"}

\* C15: every hillClimb run ends after at most numIterations iterations (and
\* so after at most numIterations moves), a converged run makes no further
\* iteration, and the whole solve ends after exactly numRestarts runs; in
\* the parallel solver every restart index is run exactly once, by one worker.
C15_Termination == []C15_Bounded /\ [][C15_Step]_vars /\ <>Finished

\* both solvers have ended after two restarts, the parallel one with one
\* restart on each worker; a sequential run was stopped by the cap while it
\* was still improving and a parallel run converged
C15_Witness ==
    /\ pc = "done" /\ numRestarts = 2 /\ numThreads = 2 /\ numIterations >= 1
    /\ Len(seqRuns) = 2 /\ DOMAIN parRuns = {0, 1}
    /\ parRuns[0].by # parRuns[1].by
    /\ \E k \in 1..2 : seqRuns[k].state = "RUNNING" /\ seqRuns[k].passes = numIterations
    /\ \E r \in 0..1 : parRuns[r].state = "CONVERGED"

\* ---- small instances -----------------------------------------------------
\* the record is the trivial tour with its length, and no candidate was
\* evaluated for it and no move applied
TrivialRun(c) ==
    /\ c.tour = iota(N)
    /\ c.length = calculateTourLength(iota(N))
    /\ c.iter = 0

\* every position the record's last iteration read lies inside the tour
InsideTour(c) ==
    \A q \in 1..Len(c.scanned) :
        /\ c.scanned[q][1] - 1 >= 0
        /\ c.scanned[q][2] + 1 <= Len(c.tour)

\* C16: with N = 1 or N = 2 the 2-opt neighbourhood is empty: for every
\* iteration cap hillClimb evaluates no candidate and returns the trivial
\* tour ([0], [0, 1]) with its length, and no position outside the tour is read.
C16_EmptyNeighbourhood ==
    N \in {1, 2} =>
        /\ \A c \in ActiveCalls : TrivialRun(c) /\ c.scanned = << >> /\ InsideTour(c)
        /\ \A c \in SeqResults \cup ParResults : TrivialRun(c)
        /\ \A t \in ShuffledTours(N), cap \in 0..MaxIter :
              /\ hillClimb(t, cap).tour = iota(N)
              /\ hillClimb(t, cap).length = calculateTourLength(iota(N))

\* on 2 nodes a call made an iteration, which found nothing to evaluate and
\* converged on the tour [0, 1]
C16_Witness ==
    /\ N = 2 /\ numIterations >= 1
    /\ hc.state = "CONVERGED" /\ hc.passes = 1 /\ hc.scanned = << >>
    /\ hc.tour = <<0, 1>>

\* C17: on every 1x1 matrix calculateTourLength gives 0 for the tour [0],
\* and so the length of every run and the length printed are 0.
C17_SingleNodeLengthZero ==
    N = 1 =>
        /\ calculateTourLength(<<0>>) = 0
        /\ \A c \in ActiveCalls \cup SeqResults \cup ParResults : c.length = 0
        /\ seqOut.printed /\ seqOut.tour = <<0>> => seqOut.length = 0
        /\ parOut.printed /\ parOut.tour = <<0>> => parOut.length = 0

\* ---- no restart ----------------------------------------------------------
\* C18: with numRestarts = 0 neither solver starts a hillClimb run (no tour
\* is generated, no call is made, no best is kept) and the tour returned
\* is empty, which is no permutation of the nodes.
C18_NoRestartNoSolution ==
    numRestarts = 0 =>
        /\ shuffleOut = << >> /\ gen_[2] = 0
        /\ \A w \in Workers : localGen[w][2] = 0 /\ localBestTour[w] = << >>
        /\ \A c \in Calls : c.state = "NONE"
        /\ seqRuns = << >> /\ DOMAIN parRuns = {}
        /\ bestTour = << >> /\ pBestTour = << >>
        /\ seqOut.printed => seqOut.tour = << >> /\ ~IsPermutation(seqOut.tour)
        /\ parOut.printed => parOut.tour = << >> /\ ~IsPermutation(parOut.tour)

\* both solvers have returned the empty tour on a 3-node matrix, the
\* parallel one after its two workers went through the critical section
C18_Witness ==
    /\ numRestarts = 0 /\ pc = "done" /\ N = 3 /\ numThreads = 2
    /\ Len(mergeOrder) = 2
    /\ seqOut.printed /\ seqOut.tour = << >>
    /\ parOut.printed /\ parOut.tour = << >>

\* ---- rotation anchor -----------------------------------------------------
StartsAtZero(t) == Len(t) >= 1 /\ t[1] = 0

\* C19: node 0 is at position 0 of every tour at every stage (generated,
\* current, candidate, run result, thread-local and global best), and the
\* tour returned begins with node 0 when numRestarts >= 1.
C19_RotationAnchor ==
    /\ \A g \in DOMAIN shuffleOut : StartsAtZero(shuffleOut[g])
    /\ \A c \in ActiveCalls :
          /\ StartsAtZero(c.tour)
          /\ \A m \in Moves(N) : StartsAtZero(twoOptSwap(c.tour, m[1], m[2]))
    /\ \A r \in SeqResults \cup ParResults : StartsAtZero(r.tour)
    /\ bestLength < DoubleMax => StartsAtZero(bestTour)
    /\ \A w \in Workers :
          /\ localBestLength[w] < DoubleMax /\ wpc[w] \in {"loop", "climb", "barrier", "critical"}
                => StartsAtZero(localBestTour[w])
          /\ w \in DOMAIN atMerge /\ atMerge[w].length < DoubleMax
                => StartsAtZero(atMerge[w].tour)
    /\ pBestLength < DoubleMax => StartsAtZero(pBestTour)
    /\ seqOut.printed /\ numRestarts >= 1 => StartsAtZero(seqOut.tour)
    /\ parOut.printed /\ numRestarts >= 1 => StartsAtZero(parOut.tour)

\* a 4-node solve has printed tours that begin with node 0, after a run
\* whose moves brought the last node of its starting tour next to node 0
C19_Witness ==
    /\ N = 4 /\ pc = "done" /\ numRestarts >= 1
    /\ seqOut.tour[1] = 0 /\ parOut.tour[1] = 0
    /\ \E r \in SeqResults : r.iter >= 1 /\ r.tour # shuffleOut[<<seed, 0>>]
                             /\ r.tour[2] = shuffleOut[<<seed, 0>>][4]

\* ---- the shared best ------------------------------------------------------
\* the workers inside the critical section
InCritical == {w \in Workers : wpc[w] \in {"critical", "assign", "leave"}}

\* the shared tour and length belong together
SharedBestConsistent ==
    \/ pBestTour = << >> /\ pBestLength = DoubleMax
    \/ pBestTour # << >> /\ pBestLength = calculateTourLength(pBestTour)

C20_Consistent ==
    /\ Cardinality(InCritical) <= 1
    /\ InCritical = {} => SharedBestConsistent

\* a step that writes the shared tour or length is a step of the worker
\* that is inside the critical section
C20_Step ==
    pc = "region" /\ (pBestTour' # pBestTour \/ pBestLength' # pBestLength) =>
        \E w \in InCritical : lock = w /\ wpc'[w] # wpc[w]

\* C20: whenever no worker is inside the critical section, the shared best
\* is either the empty tour with the initial maximum length or a tour with
\* its own length; the shared pair is written only by a worker inside the
\* critical section, and at most one worker is inside at a time.
C20_NoTornSharedBest == []C20_Consistent /\ [][C20_Step]_vars

\* one of two workers has merged its best and left the critical section,
\* and the other, which holds a shorter tour, has not entered it yet
C20_Witness ==
    /\ pc = "region" /\ numThreads = 2 /\ InCritical = {}
    /\ Len(mergeOrder) = 1 /\ pBestTour # << >>
    /\ \E w \in Workers : wpc[w] = "barrier" /\ localBestLength[w] < pBestLength

\* inside the critical section the shared tour is written before the length
TornInside ==
    \E w \in InCritical : wpc[w] = "assign" /\ pBestLength # calculateTourLength(pBestTour)

\* ---- idle workers --------------------------------------------------------
\* the workers that the distribution of the restarts leaves without restart
IdleWorkers == {w \in Workers : \A r \in DOMAIN schedule : schedule[r] # w}

\* an idle worker holds the initial local best, and the tour returned for
\* numRestarts >= 1 is a run's tour, not the empty one
C21_IdleHoldsNothing ==
    /\ pc = "region" =>
          \A w \in IdleWorkers :
              /\ localBestLength[w] = DoubleMax /\ localBestTour[w] = << >>
              /\ w \in DOMAIN atMerge =>
                    atMerge[w].length = DoubleMax /\ atMerge[w].tour = << >>
    /\ AllMerged /\ numRestarts >= 1 =>
          pBestTour # << >> /\ pBestLength < DoubleMax
    /\ parOut.printed /\ numRestarts >= 1 =>
          parOut.tour # << >> /\ \E r \in ParResults : r.tour = parOut.tour

\* a step of an idle worker leaves the shared tour and length as they are
C21_Step ==
    pc = "region" =>
        \A w \in IdleWorkers :
            wpc'[w] # wpc[w] => pBestTour' = pBestTour /\ pBestLength' = pBestLength

\* C21: a worker that got no restart never changes the shared best: it
\* enters the critical section with the initial maximum, which is not below
\* bestLength, and leaves bestTour and bestLength as they are; for
\* numRestarts >= 1 the tour returned is never an idle worker's empty tour,
\* in whatever order the workers merge.
C21_IdleWorkerChangesNothing == []C21_IdleHoldsNothing /\ [][C21_Step]_vars

\* with one restart and two workers the idle worker merged after the busy
\* one, and the tour of the busy worker's run was printed
C21_Witness ==
    /\ pc = "done" /\ numRestarts = 1 /\ numThreads = 2 /\ N = 3
    /\ \E w \in IdleWorkers :
          /\ Len(mergeOrder) = 2 /\ mergeOrder[2] = w
          /\ atMerge[w].length = DoubleMax
    /\ parOut.tour # << >>

\* the idle worker merged first, before the shared best held a tour
C21_IdleFirst ==
    /\ pc = "done" /\ numRestarts = 1 /\ numThreads = 2
    /\ \E w \in IdleWorkers : mergeOrder[1] = w

\* ---- one worker ----------------------------------------------------------
\* what a run record says of the run itself
RunOf(r) == [tour |-> r.tour, length |-> r.length, state |-> r.state,
             iter |-> r.iter, passes |-> r.passes]

\* C22: with one worker thread the parallel solver does what the sequential
\* solver does: its generator goes through the same states, from seed + 0,
\* restart r is the same run as the sequential solver's restart r (same
\* starting tour, same moves, same result), and the best tour and length it
\* keeps and returns are the sequential solver's.
C22_OneWorkerIsSequential ==
    numThreads = 1 =>
        /\ pc \in {"region", "done"} =>
              /\ localGen[0][1] = seed
              /\ localGen[0][2] <= gen_[2]
              /\ \A r \in DOMAIN parRuns :
                    r + 1 <= Len(seqRuns) /\ RunOf(parRuns[r]) = RunOf(seqRuns[r + 1])
              /\ whc[0].state # "NONE" =>
                    /\ wRestart[0] + 1 <= Len(seqRuns)
                    /\ localGen[0][2] = wRestart[0] + 1
                    /\ whc[0].length >= seqRuns[wRestart[0] + 1].length
        /\ AllMerged =>
              /\ localGen[0] = gen_
              /\ DOMAIN parRuns = {k - 1 : k \in 1..Len(seqRuns)}
              /\ pBestTour = bestTour /\ pBestLength = bestLength
        /\ pc = "done" =>
              seqOut.tour = parOut.tour /\ seqOut.length = parOut.length

\* both solvers have made the same two runs on a 3-node matrix, from two
\* different starting tours, one of which was improved by a move, and have
\* printed the same tour
C22_Witness ==
    /\ numThreads = 1 /\ pc = "done" /\ numRestarts = 2 /\ N = 3
    /\ shuffleOut[<<seed, 0>>] # shuffleOut[<<seed, 1>>]
    /\ \E r \in DOMAIN parRuns : parRuns[r].iter >= 1
    /\ parOut.tour = seqOut.tour /\ parOut.tour # << >>
====
